---- MODULE Spec2Model ----
(***************************************************************************)
(* Model of the diff-to-suggestion pipeline of the .dagger workspace       *)
(* module: Workspace.parse_diff (unified diff text -> CodeSuggestion list) *)
(* and Workspace.suggest (delivery of the suggestions to the GitHub API),  *)
(* and of parse_diff of workspace/suggestions.py, the earlier parser.      *)
(*                                                                         *)
(* A diff line is a record.  `head` is the leading marker the code tests   *)
(* with its two regular expressions and with str.startswith; `path`,       *)
(* `old_start` and `new_start` are the groups the regular expressions      *)
(* capture; `text` is line[1:], the line without its one-character prefix. *)
(* A text is a number: 0 stands for a whitespace-only text (str.strip()    *)
(* is empty), n > 0 for the non-blank text of the n-th line of the diff,   *)
(* so that two non-blank lines of one diff never carry the same text.      *)
(***************************************************************************)
EXTENDS Integers, Sequences, FiniteSets, TLC

\* ------------------------------------------------------------------ bounds

\* longest diff text (in lines) fed to parse_diff with arbitrary line order
MaxLines == 5

\* longest diff text (in lines) fed to parse_diff of workspace/suggestions.py
MaxSuggestionsLines == 5

\* most entries of the diff index handed to DiffParser.parse_diff
MaxDiffs == 2

\* most hunks of one entry of the diff index
MaxHunks == 2

\* most hunk lines, over all entries of one diff index
MaxHunkLines == 3

\* longest diff text (in lines) fed to Agent.parse_git_diff
MaxAgentLines == 5

\* longest diff text (in lines) fed to parse_diff when the lines follow the
\* unified-diff grammar (file header, hunk header, hunk body)
MaxGrammarLines == 6

\* longest diff text (in lines) handed to suggest
MaxSuggestLines == 6

\* longest file content (in lines) the repository returns to suggest
MaxFileLines == 2

\* ------------------------------------------------------- program constants

\* current_diff_hunk[-10:] : the window of hunk lines kept in diff_hunk
HunkWindow == 10

\* ------------------------------------------------------------- diff lines

Files == {"f1", "f2"}

Blank == 0

DiffGit(f) ==
    [head |-> "diff --git", path |-> f, old_start |-> 0, new_start |-> 0, text |-> 0]

Plus3(f) ==
    [head |-> "+++", path |-> f, old_start |-> 0, new_start |-> 0, text |-> 0]

Minus3(f) ==
    [head |-> "---", path |-> f, old_start |-> 0, new_start |-> 0, text |-> 0]

Hunk(o, n) ==
    [head |-> "@@", path |-> "", old_start |-> o, new_start |-> n, text |-> 0]

Add(t) ==
    [head |-> "+", path |-> "", old_start |-> 0, new_start |-> 0, text |-> t]

Del(t) ==
    [head |-> "-", path |-> "", old_start |-> 0, new_start |-> 0, text |-> t]

Ctx ==
    [head |-> " ", path |-> "", old_start |-> 0, new_start |-> 0, text |-> 0]

NoNewline ==
    [head |-> "\\", path |-> "", old_start |-> 0, new_start |-> 0, text |-> 0]

\* the hunk headers fed to the parser: "@@ -1,. +1,. @@" and "@@ -2,. +3,. @@"
HunkHeaders == {Hunk(1, 1), Hunk(2, 3)}

\* the lines that can stand at place n of a diff text
LinesAt(n) ==
    {DiffGit(f) : f \in Files} \cup {Plus3("f1")} \cup HunkHeaders
        \cup {Add(n), Add(Blank), Del(n), Ctx, NoNewline}

\* str.startswith(prefix) for the prefixes the code tests
StartsWith(l, prefix) ==
    CASE prefix = "+"   -> l.head \in {"+", "+++"}
      [] prefix = "+++" -> l.head = "+++"
      [] prefix = "-"   -> l.head \in {"-", "---"}
      [] prefix = "---" -> l.head = "---"
      [] prefix = "\\"  -> l.head = "\\"
      [] OTHER          -> FALSE

\* file_regex.match(line): only the "diff --git a/.. b/<path>" form matches
FileMatch(l) == l.head = "diff --git"

\* hunk_regex.match(line)
HunkMatch(l) == l.head = "@@"

\* a filter that takes every addition for meaningful
StripKeepsAll(t) == TRUE

\* content.strip() is non-empty
Strip(t) == t # Blank

\* ------------------------------------------------- Workspace.parse_diff

None == -1

\* the locals of parse_diff before the loop
ParserInit ==
    [suggestions |-> <<>>,
     current_file |-> "",
     current_hunk_start_line |-> 0,
     position_in_hunk |-> 0,
     added_lines |-> <<>>,
     added_line_numbers |-> <<>>,
     current_diff_hunk |-> <<>>,
     modified_files |-> <<>>,
     removed_line |-> None,
     removed_line_number |-> 0]

\* seq[-10:]
LastLines(seq) ==
    IF Len(seq) <= HunkWindow THEN seq
    ELSE SubSeq(seq, Len(seq) - HunkWindow + 1, Len(seq))

CodeSuggestion(f, ln, sg, pos, hunk) ==
    [file |-> f, line |-> ln, suggestion |-> sg, position |-> pos,
     diff_hunk |-> LastLines(hunk), is_in_diff |-> FALSE]

\* "if added_lines and current_file and current_diff_hunk"
Pending(s) ==
    /\ s.added_lines # <<>>
    /\ s.current_file # ""
    /\ s.current_diff_hunk # <<>>

\* position given to a block flushed by a file header or a hunk header
HeaderFlushPosition(s) == s.position_in_hunk

\* position given to a block closed by a line that is not an addition
BlockEndPosition(s) == s.position_in_hunk - Len(s.added_lines)

\* position given to the block still pending at the end of the input
FinalPosition(s) == s.position_in_hunk - Len(s.added_lines) + 1

\* a flush that puts the new suggestion in front of the list
EmitInFront(s, pos) ==
    [s EXCEPT !.suggestions =
                  <<CodeSuggestion(s.current_file, s.added_line_numbers[1],
                                   s.added_lines, pos, s.current_diff_hunk)>> \o @,
              !.added_lines = <<>>,
              !.added_line_numbers = <<>>]

\* suggestions.append(CodeSuggestion(...)); added_lines = []; added_line_numbers = []
Emit(s, pos) ==
    [s EXCEPT !.suggestions =
                  Append(@, CodeSuggestion(s.current_file, s.added_line_numbers[1],
                                           s.added_lines, pos, s.current_diff_hunk)),
              !.added_lines = <<>>,
              !.added_line_numbers = <<>>]

\* "Process any pending suggestions before moving to a new file / hunk"
FlushAtHeader(s) == IF Pending(s) THEN Emit(s, HeaderFlushPosition(s)) ELSE s

\* modified_files[current_file] = set() unless the key exists
WithFileKey(m, f) ==
    [x \in DOMAIN m \cup {f} |-> IF x \in DOMAIN m THEN m[x] ELSE {}]

\* modified_files[f].add(n)
WithModifiedLine(m, f, n) ==
    [x \in DOMAIN m \cup {f} |->
        IF x = f THEN (IF x \in DOMAIN m THEN m[x] ELSE {}) \cup {n} ELSE m[x]]

\* the branch taken when file_regex matches
OnFileHeader(s, l) ==
    LET t == FlushAtHeader(s)
    IN [t EXCEPT !.current_file = l.path,
                 !.modified_files = WithFileKey(@, l.path),
                 !.current_diff_hunk = <<>>,
                 !.removed_line = None,
                 !.removed_line_number = 0]

\* the branch taken when hunk_regex matches
OnHunkHeader(s, l) ==
    LET t == FlushAtHeader(s)
    IN [t EXCEPT !.current_hunk_start_line = l.new_start - 1,
                 !.position_in_hunk = 1,
                 !.current_diff_hunk = <<l>>,
                 !.removed_line = None,
                 !.removed_line_number = l.old_start - 1]

\* "Collect the diff hunk"
CollectHunk(s, l) ==
    IF s.current_diff_hunk # <<>>
    THEN [s EXCEPT !.current_diff_hunk = Append(@, l)]
    ELSE s

\* "Track position for each line after a hunk header"
TrackPosition(s) ==
    IF s.position_in_hunk > 0
    THEN [s EXCEPT !.position_in_hunk = @ + 1]
    ELSE s

\* a tracker that advances the new-file line counter on deletions as well
TrackLinesCountsDeletions(s, l) ==
    IF s.current_file # "" /\ s.position_in_hunk > 0
    THEN IF StartsWith(l, "-") /\ ~StartsWith(l, "---")
         THEN [s EXCEPT !.removed_line = l.text,
                        !.removed_line_number = @ + 1,
                        !.current_hunk_start_line = @ + 1]
         ELSE IF StartsWith(l, "+") /\ ~StartsWith(l, "+++")
         THEN [s EXCEPT !.modified_files =
                            WithModifiedLine(@, s.current_file,
                                             s.current_hunk_start_line + 1),
                        !.removed_line = None,
                        !.current_hunk_start_line = @ + 1]
         ELSE IF ~StartsWith(l, "\\")
         THEN [s EXCEPT !.current_hunk_start_line = @ + 1,
                        !.removed_line_number = @ + 1,
                        !.removed_line = None]
         ELSE s
    ELSE s

\* "Track modified lines": the new-file line counter and modified_files
TrackLines(s, l) ==
    IF s.current_file # "" /\ s.position_in_hunk > 0
    THEN IF StartsWith(l, "-") /\ ~StartsWith(l, "---")
         THEN [s EXCEPT !.removed_line = l.text,
                        !.removed_line_number = @ + 1]
         ELSE IF StartsWith(l, "+") /\ ~StartsWith(l, "+++")
         THEN [s EXCEPT !.modified_files =
                            WithModifiedLine(@, s.current_file,
                                             s.current_hunk_start_line + 1),
                        !.removed_line = None,
                        !.current_hunk_start_line = @ + 1]
         ELSE IF ~StartsWith(l, "\\")
         THEN [s EXCEPT !.current_hunk_start_line = @ + 1,
                        !.removed_line_number = @ + 1,
                        !.removed_line = None]
         ELSE s
    ELSE s

\* a parser that forgets the counter already counts the addition being read
AnchorLineOffByOne(s) == s.current_hunk_start_line + 1

\* the number recorded for the first line of a new addition block
AnchorLine(s) == s.current_hunk_start_line

\* "Collect added lines (additions)" and the closing of a block
CollectAdditions(s, l) ==
    IF StartsWith(l, "+") /\ ~StartsWith(l, "+++")
    THEN IF Strip(l.text)
         THEN [s EXCEPT !.added_line_numbers =
                            IF s.added_lines = <<>> THEN Append(@, AnchorLine(s)) ELSE @,
                        !.added_lines = Append(@, l.text)]
         ELSE s
    ELSE IF Pending(s)
    THEN Emit(s, BlockEndPosition(s))
    ELSE s

\* one iteration of the loop for a line that is neither header
OnBodyLine(s, l) ==
    CollectAdditions(TrackLines(TrackPosition(CollectHunk(s, l)), l), l)

\* one iteration of "while i < len(lines)"
Step(s, l) ==
    IF FileMatch(l) THEN OnFileHeader(s, l)
    ELSE IF HunkMatch(l) THEN OnHunkHeader(s, l)
    ELSE OnBodyLine(s, l)

\* "Handle any remaining added lines at the end of the file"
FlushAtEnd(s) == IF Pending(s) THEN Emit(s, FinalPosition(s)) ELSE s

\* a membership test against the numbers the counter held before each addition
InDiffBeforeCount(m, sg) == sg.file \in DOMAIN m /\ (sg.line - 1) \in m[sg.file]

\* suggestion.is_in_diff = file in modified_files and line in modified_files[file]
InDiff(m, sg) == sg.file \in DOMAIN m /\ sg.line \in m[sg.file]

\* the code after the loop: the last flush and the is_in_diff marks
Finish(s) ==
    LET t == FlushAtEnd(s)
    IN [i \in 1..Len(t.suggestions) |->
           [t.suggestions[i] EXCEPT !.is_in_diff = InDiff(t.modified_files, t.suggestions[i])]]

RECURSIVE Scan(_, _)
Scan(s, ls) == IF ls = <<>> THEN s ELSE Scan(Step(s, Head(ls)), Tail(ls))

\* parse_diff as a function of its argument
ParseDiff(ls) == Finish(Scan(ParserInit, ls))

\* ---------------------------------------------- calls and outcomes of suggest

\* one call to the GitHub API and whether it succeeded
Call(op, kind, path, line, body, ok) ==
    [op |-> op, kind |-> kind, path |-> path, line |-> line, body |-> body, ok |-> ok]

Running ==
    [kind |-> "running", error |-> "", text |-> "", posted |-> 0, regular |-> 0,
     prs |-> <<>>, branch |-> "", outside |-> 0]

Raised(e) == [Running EXCEPT !.kind = "raised", !.error = e]

\* ------------------------------------------------------------------ state

VARIABLES
    mode,       \* the program under check and how its input is drawn: "any" line
                \* order, "grammar", "suggest", "suggestions", "diff_parser", "agent"
    lines,      \* diff_text.splitlines(), as far as the loop has read it
    p,          \* the locals of parse_diff
    pc,         \* parse_diff: "scan", "returned"; suggest: the statement to run next
    result,     \* the list parse_diff returned
    token,      \* Workspace.token is set
    in_diff_suggestions,
    out_of_diff_suggestions,
    i,          \* index (from 1) of the in-diff suggestion being processed
    successful_suggestions,
    fallback_suggestions,
    file_to_suggestions,   \* dict: file -> list of suggestions
    file_order,            \* the keys of file_to_suggestions in insertion order
    k,          \* index (from 1) into file_order of the file being applied
    new_content,           \* the content computed for the file being applied
    branch_name,
    new_pr_number,
    created_prs,
    calls,      \* the calls made to the GitHub API so far, in order, with outcomes
    outcome     \* what suggest returned or raised

parseVars == <<lines, p, result>>

suggestVars ==
    <<token, in_diff_suggestions, out_of_diff_suggestions, i, successful_suggestions,
      fallback_suggestions, file_to_suggestions, file_order, k, new_content,
      branch_name, new_pr_number, created_prs, calls, outcome>>

vars == <<mode, pc, parseVars, suggestVars>>

\* ---------------------------------------------------------- diff grammar

\* the last line that is a file header of either form, 0 if none
RECURSIVE LastHeaderAt(_, _)
LastHeaderAt(ls, n) ==
    IF n = 0 THEN 0
    ELSE IF ls[n].head \in {"diff --git", "+++"} THEN n
    ELSE LastHeaderAt(ls, n - 1)

\* a hunk header follows the last file header
InHunk(ls) ==
    LET h == LastHeaderAt(ls, Len(ls))
    IN h > 0 /\ \E j \in h + 1..Len(ls) : ls[j].head = "@@"

\* unified-diff grammar: a file header first, "+++" right after "diff --git" or
\* as the header itself, a hunk header only inside a file, body lines only
\* inside a hunk
GrammarAllows(ls, l) ==
    IF l.head = "diff --git" THEN TRUE
    ELSE IF l.head = "+++"
    THEN IF ls = <<>> THEN TRUE ELSE ls[Len(ls)].head = "diff --git"
    ELSE IF l.head = "@@" THEN LastHeaderAt(ls, Len(ls)) > 0
    ELSE InHunk(ls)

Allowed(l) ==
    IF mode = "any" THEN Len(lines) < MaxLines
    ELSE Len(lines) < MaxGrammarLines /\ GrammarAllows(lines, l)

\* ---------------------------------------------------------------- actions

\* the locals of suggest before its first statement
InitSuggestLocals ==
    /\ in_diff_suggestions = <<>>
    /\ out_of_diff_suggestions = <<>>
    /\ i = 1
    /\ successful_suggestions = 0
    /\ fallback_suggestions = 0
    /\ file_to_suggestions = <<>>
    /\ file_order = <<>>
    /\ k = 1
    /\ new_content = <<>>
    /\ branch_name = ""
    /\ new_pr_number = ""
    /\ created_prs = <<>>
    /\ calls = <<>>
    /\ outcome = Running

InitParser ==
    /\ lines = <<>>
    /\ p = ParserInit
    /\ pc = "scan"
    /\ result = <<>>
    /\ token = TRUE
    /\ InitSuggestLocals

Init == mode = "any" /\ InitParser

InitGrammar == mode = "grammar" /\ InitParser

ReadFileHeader ==
    /\ pc = "scan"
    /\ \E l \in LinesAt(Len(lines) + 1) :
          /\ Allowed(l)
          /\ FileMatch(l)
          /\ lines' = Append(lines, l)
          /\ p' = OnFileHeader(p, l)
    /\ UNCHANGED <<mode, pc, result, suggestVars>>

ReadHunkHeader ==
    /\ pc = "scan"
    /\ \E l \in LinesAt(Len(lines) + 1) :
          /\ Allowed(l)
          /\ ~FileMatch(l)
          /\ HunkMatch(l)
          /\ lines' = Append(lines, l)
          /\ p' = OnHunkHeader(p, l)
    /\ UNCHANGED <<mode, pc, result, suggestVars>>

ReadBodyLine ==
    /\ pc = "scan"
    /\ \E l \in LinesAt(Len(lines) + 1) :
          /\ Allowed(l)
          /\ ~FileMatch(l)
          /\ ~HunkMatch(l)
          /\ lines' = Append(lines, l)
          /\ p' = OnBodyLine(p, l)
    /\ UNCHANGED <<mode, pc, result, suggestVars>>

EndOfInput ==
    /\ pc = "scan"
    /\ pc' = "returned"
    /\ result' = Finish(p)
    /\ UNCHANGED <<mode, lines, p, suggestVars>>

Next ==
    \/ ReadFileHeader
    \/ ReadHunkHeader
    \/ ReadBodyLine
    \/ EndOfInput

Spec == Init /\ [][Next]_vars

SpecGrammar == InitGrammar /\ [][Next]_vars

\* ------------------------------------------------------ Workspace.suggest

\* the lines that can stand at place n of the diff text handed to suggest
SuggestLinesAt(n) == {DiffGit(f) : f \in Files} \cup {Hunk(2, 3), Add(n)}

\* a file content: its lines, each unlike any diff text, and whether the text
\* ends with a line break
Content(n, newline) == [text |-> [j \in 1..n |-> 100 + j], newline |-> newline]

\* the file contents the repository can hold: the empty text, and n lines with
\* or without a line break after the last one
FileContents ==
    {Content(0, FALSE)} \cup {Content(n, e) : n \in 1..MaxFileLines, e \in BOOLEAN}

\* content.splitlines(): the line break after the last line leaves no trace
Splitlines(content) == content.text

\* "\n".join(lines): a text without a line break after its last line
Join(ls) == [text |-> ls, newline |-> FALSE]

\* a router that sends every suggestion to the inline path
RoutedInlineAlways(sg) == TRUE

\* "if hasattr(suggestion, 'is_in_diff') and suggestion.is_in_diff"
RoutedInline(sg) == sg.is_in_diff

InDiffOf(sgs) == SelectSeq(sgs, LAMBDA x : RoutedInline(x))

OutOfDiffOf(sgs) == SelectSeq(sgs, LAMBDA x : ~RoutedInline(x))

\* the keys of file_to_suggestions in the order the grouping loop inserts them
RECURSIVE KeysInOrder(_)
KeysInOrder(sgs) ==
    IF sgs = <<>> THEN <<>>
    ELSE LET f == sgs[1].file
         IN <<f>> \o KeysInOrder(SelectSeq(Tail(sgs), LAMBDA x : x.file # f))

\* "Group suggestions by file"
GroupByFile(sgs) ==
    [f \in {sgs[j].file : j \in 1..Len(sgs)} |-> SelectSeq(sgs, LAMBDA x : x.file = f)]

\* sorted.insert for a descending stable sort: after every entry with line >= x.line
RECURSIVE InsertDescending(_, _)
InsertDescending(x, sorted) ==
    IF sorted = <<>> THEN <<x>>
    ELSE IF sorted[1].line >= x.line
    THEN <<sorted[1]>> \o InsertDescending(x, Tail(sorted))
    ELSE <<x>> \o sorted

\* file_suggestions.sort(key=lambda s: s.line, reverse=True)
RECURSIVE SortDescending(_)
SortDescending(sgs) ==
    IF sgs = <<>> THEN <<>>
    ELSE InsertDescending(sgs[Len(sgs)], SortDescending(SubSeq(sgs, 1, Len(sgs) - 1)))

Reversed(seq) == [j \in 1..Len(seq) |-> seq[Len(seq) + 1 - j]]

\* list.pop(idx), idx counted from 0
Pop(seq, idx) == SubSeq(seq, 1, idx) \o SubSeq(seq, idx + 2, Len(seq))

\* list.insert(idx, x), idx counted from 0
Insert(seq, idx, x) == SubSeq(seq, 1, idx) \o <<x>> \o SubSeq(seq, idx + 1, Len(seq))

RECURSIVE InsertEach(_, _, _)
InsertEach(seq, idx, xs) ==
    IF xs = <<>> THEN seq ELSE InsertEach(Insert(seq, idx, Head(xs)), idx, Tail(xs))

\* "Replace the line with the suggestion"
ApplyOne(content, sg) ==
    LET line_idx == sg.line - 1
    IN IF 0 <= line_idx /\ line_idx < Len(content)
       THEN InsertEach(Pop(content, line_idx), line_idx, Reversed(sg.suggestion))
       ELSE content

RECURSIVE ApplyAll(_, _)
ApplyAll(content, sgs) ==
    IF sgs = <<>> THEN content ELSE ApplyAll(ApplyOne(content, Head(sgs)), Tail(sgs))

\* where suggest goes once the loop over the in-diff suggestions is over
AfterInline(out) == IF out # <<>> THEN "create_branch" ELSE "return"

\* a loop that ends after its first suggestion
NextInlineStopsEarly(n, ins, out) == AfterInline(out)

\* where suggest goes once the in-diff suggestion at index n has been dealt with
NextInline(n, ins, out) == IF n < Len(ins) THEN "inline" ELSE AfterInline(out)

\* a loop that swallows a failed review comment without the issue comment
AfterReviewCommentNoFallback(ok, n, ins, out) == NextInline(n, ins, out)

\* where suggest goes after create_review_comment for the suggestion at index n:
\* on to the next suggestion, or into the except block with its issue comment
AfterReviewComment(ok, n, ins, out) ==
    IF ok THEN NextInline(n, ins, out) ELSE "fallback"

\* a suggest that goes on without a token
AfterTokenCheckLenient(tok) == "init_client"

\* "if not self.token: raise ValueError(...)"
AfterTokenCheck(tok) == IF tok THEN "init_client" ELSE "raised"

\* a suggest that opens the pull request right after the branch, before any file
AfterCreateBranchSkipsFiles(ok) == IF ok THEN "create_pull" ELSE "raised"

\* where suggest goes after create_branch_from_pr: into the loop over the files
\* (file_to_suggestions is not empty here), or out with the exception
AfterCreateBranch(ok) == IF ok THEN "get_file_content" ELSE "raised"

\* where suggest goes once the file at index n of the batch has been dealt with
NextFile(n, order) == IF n < Len(order) THEN "get_file_content" ELSE "create_pull"

\* a suggest that swallows a failed create_pr_from_branch without a comment
AfterCreatePullGivesUp(ok) == IF ok THEN "link_comment" ELSE "return"

\* where suggest goes after create_pr_from_branch: on to the comment linking the
\* new pull request, or into the except block with the comment naming the branch
AfterCreatePull(ok) == IF ok THEN "link_comment" ELSE "branch_comment"

\* "Build the result message"
Summary(ok_count, fb_count, prs, out, branch) ==
    [kind |-> "returned", error |-> "", text |-> "Posted",
     posted |-> ok_count,
     regular |-> IF fb_count > 0 THEN fb_count ELSE 0,
     prs |-> prs,
     branch |-> IF prs = <<>> /\ out # <<>> THEN branch ELSE "",
     outside |-> IF prs = <<>> /\ out # <<>> THEN Len(out) ELSE 0]

InitSuggest ==
    /\ mode = "suggest"
    /\ pc = "check_token"
    /\ \E n \in 0..MaxSuggestLines :
          lines \in {ls \in [1..n -> UNION {SuggestLinesAt(j) : j \in 1..n}] :
                        \A j \in 1..n : ls[j] \in SuggestLinesAt(j)}
    /\ p = ParserInit
    /\ result = <<>>
    /\ token \in BOOLEAN
    /\ InitSuggestLocals

\* "if not self.token: raise ValueError(...)"
CheckToken ==
    /\ pc = "check_token"
    /\ pc' = AfterTokenCheck(token)
    /\ IF token
       THEN UNCHANGED outcome
       ELSE outcome' = Raised("ValueError")
    /\ UNCHANGED <<mode, parseVars, token, in_diff_suggestions, out_of_diff_suggestions,
                   i, successful_suggestions, fallback_suggestions, file_to_suggestions,
                   file_order, k, new_content, branch_name, new_pr_number, created_prs,
                   calls>>

\* "github = await GitHubClient(self.token).init()"
InitClient ==
    /\ pc = "init_client"
    /\ \E ok \in BOOLEAN :
          /\ calls' = Append(calls, Call("init", "", "", 0, <<>>, ok))
          /\ IF ok
             THEN pc' = "get_pr" /\ UNCHANGED outcome
             ELSE pc' = "raised" /\ outcome' = Raised("Exception")
    /\ UNCHANGED <<mode, parseVars, token, in_diff_suggestions, out_of_diff_suggestions,
                   i, successful_suggestions, fallback_suggestions, file_to_suggestions,
                   file_order, k, new_content, branch_name, new_pr_number, created_prs>>

\* get_pr_for_commit, get_repo, get_commit, get_pull
GetPullRequest ==
    /\ pc = "get_pr"
    /\ \E ok \in BOOLEAN :
          /\ calls' = Append(calls, Call("get_pr_for_commit", "", "", 0, <<>>, ok))
          /\ IF ok
             THEN pc' = "parse_diff" /\ UNCHANGED outcome
             ELSE pc' = "raised" /\ outcome' = Raised("ValueError")
    /\ UNCHANGED <<mode, parseVars, token, in_diff_suggestions, out_of_diff_suggestions,
                   i, successful_suggestions, fallback_suggestions, file_to_suggestions,
                   file_order, k, new_content, branch_name, new_pr_number, created_prs>>

\* "suggestions = self.parse_diff(diff_text)", the early return and the partition
ParseAndPartition ==
    /\ pc = "parse_diff"
    /\ result' = ParseDiff(lines)
    /\ IF result' = <<>>
       THEN /\ pc' = "done"
            /\ outcome' = [Running EXCEPT !.kind = "returned",
                                          !.text = "No suggestions to make"]
            /\ UNCHANGED <<in_diff_suggestions, out_of_diff_suggestions>>
       ELSE /\ in_diff_suggestions' = InDiffOf(result')
            /\ out_of_diff_suggestions' = OutOfDiffOf(result')
            /\ pc' = NextInline(0, in_diff_suggestions', out_of_diff_suggestions')
            /\ UNCHANGED outcome
    /\ UNCHANGED <<mode, lines, p, token, i, successful_suggestions, fallback_suggestions,
                   file_to_suggestions, file_order, k, new_content, branch_name,
                   new_pr_number, created_prs, calls>>

\* "pr.create_review_comment(...)" for in_diff_suggestions[i]
InlineComment ==
    /\ pc = "inline"
    /\ LET sg == in_diff_suggestions[i]
       IN \E ok \in BOOLEAN :
             /\ calls' = Append(calls, Call("create_review_comment", "suggestion",
                                            sg.file, sg.line, sg.suggestion, ok))
             /\ successful_suggestions' = IF ok THEN successful_suggestions + 1
                                          ELSE successful_suggestions
             /\ pc' = AfterReviewComment(ok, i, in_diff_suggestions,
                                         out_of_diff_suggestions)
             /\ i' = IF pc' = "fallback" THEN i ELSE i + 1
    /\ UNCHANGED <<mode, parseVars, token, in_diff_suggestions, out_of_diff_suggestions,
                   fallback_suggestions, file_to_suggestions, file_order, k, new_content,
                   branch_name, new_pr_number, created_prs, outcome>>

\* "pr.create_issue_comment(...)" in the handler of a failed review comment
FallbackComment ==
    /\ pc = "fallback"
    /\ LET sg == in_diff_suggestions[i]
       IN \E ok \in BOOLEAN :
             /\ calls' = Append(calls, Call("create_issue_comment", "suggestion",
                                            sg.file, sg.line, sg.suggestion, ok))
             /\ fallback_suggestions' = IF ok THEN fallback_suggestions + 1
                                        ELSE fallback_suggestions
    /\ i' = i + 1
    /\ pc' = NextInline(i, in_diff_suggestions, out_of_diff_suggestions)
    /\ UNCHANGED <<mode, parseVars, token, in_diff_suggestions, out_of_diff_suggestions,
                   successful_suggestions, file_to_suggestions, file_order, k, new_content,
                   branch_name, new_pr_number, created_prs, outcome>>

\* the grouping by file and "github.create_branch_from_pr(repository, pr_number)"
CreateBranch ==
    /\ pc = "create_branch"
    /\ file_to_suggestions' = GroupByFile(out_of_diff_suggestions)
    /\ file_order' = KeysInOrder(out_of_diff_suggestions)
    /\ \E ok \in BOOLEAN :
          /\ calls' = Append(calls, Call("create_branch", "", "", 0, <<>>, ok))
          /\ pc' = AfterCreateBranch(ok)
          /\ IF ok
             THEN /\ branch_name' = "llm-fix"
                  /\ UNCHANGED outcome
             ELSE /\ outcome' = Raised("GithubException")
                  /\ UNCHANGED branch_name
    /\ k' = 1
    /\ UNCHANGED <<mode, parseVars, token, in_diff_suggestions, out_of_diff_suggestions,
                   i, successful_suggestions, fallback_suggestions, new_content,
                   new_pr_number, created_prs>>

\* "github.get_file_content(...)", then the sort and the replacement of the lines
GetFileContent ==
    /\ pc = "get_file_content"
    /\ LET f == file_order[k]
       IN \/ /\ calls' = Append(calls, Call("get_file_content", "", f, 0, <<>>, FALSE))
             /\ pc' = NextFile(k, file_order)
             /\ k' = k + 1
             /\ UNCHANGED <<file_to_suggestions, new_content>>
          \/ \E current_content \in FileContents :
                /\ calls' = Append(calls, Call("get_file_content", "", f, 0,
                                               current_content, TRUE))
                /\ file_to_suggestions' =
                       [file_to_suggestions EXCEPT ![f] = SortDescending(@)]
                /\ new_content' = Join(ApplyAll(Splitlines(current_content),
                                                file_to_suggestions'[f]))
                /\ pc' = "apply_file_changes"
                /\ UNCHANGED k
    /\ UNCHANGED <<mode, parseVars, token, in_diff_suggestions, out_of_diff_suggestions,
                   i, successful_suggestions, fallback_suggestions, file_order,
                   branch_name, new_pr_number, created_prs, outcome>>

\* "github.apply_file_changes(repository, branch_name, file_changes, commit_message)"
ApplyFileChanges ==
    /\ pc = "apply_file_changes"
    /\ \E ok \in BOOLEAN :
          calls' = Append(calls, Call("apply_file_changes", "", file_order[k], 0,
                                      new_content, ok))
    /\ pc' = NextFile(k, file_order)
    /\ k' = k + 1
    /\ UNCHANGED <<mode, parseVars, token, in_diff_suggestions, out_of_diff_suggestions,
                   i, successful_suggestions, fallback_suggestions, file_to_suggestions,
                   file_order, new_content, branch_name, new_pr_number, created_prs,
                   outcome>>

\* "github.create_pr_from_branch(...)"
CreatePullRequest ==
    /\ pc = "create_pull"
    /\ \E ok \in BOOLEAN :
          /\ calls' = Append(calls, Call("create_pull", "", "", 0, <<>>, ok))
          /\ pc' = AfterCreatePull(ok)
          /\ IF ok
             THEN new_pr_number' = "pr-2"
             ELSE UNCHANGED new_pr_number
    /\ UNCHANGED <<mode, parseVars, token, in_diff_suggestions, out_of_diff_suggestions,
                   i, successful_suggestions, fallback_suggestions, file_to_suggestions,
                   file_order, k, new_content, branch_name, created_prs, outcome>>

\* the comment linking the new pull request, in the same try block, and
\* "created_prs.append(new_pr_number)" after it
LinkComment ==
    /\ pc = "link_comment"
    /\ \E ok \in BOOLEAN :
          /\ calls' = Append(calls, Call("create_issue_comment", "link", "", 0, <<>>, ok))
          /\ IF ok
             THEN created_prs' = Append(created_prs, new_pr_number) /\ pc' = "return"
             ELSE UNCHANGED created_prs /\ pc' = "branch_comment"
    /\ UNCHANGED <<mode, parseVars, token, in_diff_suggestions, out_of_diff_suggestions,
                   i, successful_suggestions, fallback_suggestions, file_to_suggestions,
                   file_order, k, new_content, branch_name, new_pr_number, outcome>>

\* the comment naming the branch, in the handler of the failed try block
BranchComment ==
    /\ pc = "branch_comment"
    /\ \E ok \in BOOLEAN :
          calls' = Append(calls, Call("create_issue_comment", "branch", "", 0, <<>>, ok))
    /\ pc' = "return"
    /\ UNCHANGED <<mode, parseVars, token, in_diff_suggestions, out_of_diff_suggestions,
                   i, successful_suggestions, fallback_suggestions, file_to_suggestions,
                   file_order, k, new_content, branch_name, new_pr_number, created_prs,
                   outcome>>

\* "return result"
Return ==
    /\ pc = "return"
    /\ pc' = "done"
    /\ outcome' = Summary(successful_suggestions, fallback_suggestions, created_prs,
                          out_of_diff_suggestions, branch_name)
    /\ UNCHANGED <<mode, parseVars, token, in_diff_suggestions, out_of_diff_suggestions,
                   i, successful_suggestions, fallback_suggestions, file_to_suggestions,
                   file_order, k, new_content, branch_name, new_pr_number, created_prs,
                   calls>>

SuggestNext ==
    \/ CheckToken
    \/ InitClient
    \/ GetPullRequest
    \/ ParseAndPartition
    \/ InlineComment
    \/ FallbackComment
    \/ CreateBranch
    \/ GetFileContent
    \/ ApplyFileChanges
    \/ CreatePullRequest
    \/ LinkComment
    \/ BranchComment
    \/ Return

SpecSuggest == InitSuggest /\ [][SuggestNext]_vars

\* ------------------------------------- parse_diff of workspace/suggestions.py

\* the lines that can stand at place n of a diff text handed to this parser
SuggestionsLinesAt(n) ==
    {Plus3(f) : f \in Files} \cup {DiffGit("f1"), Minus3("f1")} \cup HunkHeaders
        \cup {Add(n), Del(n), Ctx}

\* file_regex = "^\+\+\+ b/(.+)"
SuggestionsFileMatch(l) == l.head = "+++"

\* line_regex = "^@@ .* \+(\d+),?"
SuggestionsLineMatch(l) == l.head = "@@"

\* the locals of parse_diff before the loop
SuggestionsInit ==
    [suggestions |-> <<>>,
     current_file |-> "",
     current_line |-> 0,
     new_code |-> <<>>,
     removal_reached |-> FALSE]

\* CodeSuggestion(file=current_file, line=current_line, suggestion=new_code)
SuggestionsEmit(s) ==
    [s EXCEPT !.suggestions =
                  Append(@, [file |-> s.current_file, line |-> s.current_line,
                             suggestion |-> s.new_code])]

\* "if new_code and current_file"
SuggestionsPending(s) == s.new_code # <<>> /\ s.current_file # ""

\* "if not removal_reached: current_line += 1"
SuggestionsTrackLine(s) ==
    IF ~s.removal_reached THEN [s EXCEPT !.current_line = @ + 1] ELSE s

\* "If a removed line ('-') appears after '+' lines, store the suggestion"
SuggestionsOnRemoval(s) ==
    LET t == IF SuggestionsPending(s)
             THEN [SuggestionsEmit(s) EXCEPT !.new_code = <<>>]
             ELSE s
    IN [t EXCEPT !.removal_reached = TRUE]

\* one iteration of "for line in diff_text.splitlines()"
SuggestionsStep(s, l) ==
    IF SuggestionsFileMatch(l) THEN [s EXCEPT !.current_file = l.path]
    ELSE IF SuggestionsLineMatch(l)
    THEN [s EXCEPT !.current_line = l.new_start - 1,
                   !.new_code = <<>>,
                   !.removal_reached = FALSE]
    ELSE IF StartsWith(l, "+") /\ ~StartsWith(l, "+++")
    THEN [s EXCEPT !.new_code = Append(@, l.text)]
    ELSE LET t == SuggestionsTrackLine(s)
         IN IF StartsWith(l, "-") /\ ~StartsWith(l, "---")
            THEN SuggestionsOnRemoval(t)
            ELSE t

\* "If there's a pending multi-line suggestion, add it"
SuggestionsFinish(s) ==
    IF SuggestionsPending(s) THEN SuggestionsEmit(s).suggestions ELSE s.suggestions

RECURSIVE SuggestionsScan(_, _)
SuggestionsScan(s, ls) ==
    IF ls = <<>> THEN s ELSE SuggestionsScan(SuggestionsStep(s, Head(ls)), Tail(ls))

\* parse_diff of workspace/suggestions.py as a function of its argument
SuggestionsParseDiff(ls) == SuggestionsFinish(SuggestionsScan(SuggestionsInit, ls))

InitSuggestions ==
    /\ mode = "suggestions"
    /\ lines = <<>>
    /\ p = SuggestionsInit
    /\ pc = "scan"
    /\ result = <<>>
    /\ token = TRUE
    /\ InitSuggestLocals

SuggestionsReadLine ==
    /\ pc = "scan"
    /\ Len(lines) < MaxSuggestionsLines
    /\ \E l \in SuggestionsLinesAt(Len(lines) + 1) :
          /\ lines' = Append(lines, l)
          /\ p' = SuggestionsStep(p, l)
    /\ UNCHANGED <<mode, pc, result, suggestVars>>

SuggestionsEndOfInput ==
    /\ pc = "scan"
    /\ pc' = "returned"
    /\ result' = SuggestionsFinish(p)
    /\ UNCHANGED <<mode, lines, p, suggestVars>>

SuggestionsNext ==
    \/ SuggestionsReadLine
    \/ SuggestionsEndOfInput

SpecSuggestions == InitSuggestions /\ [][SuggestionsNext]_vars

\* --------------------------------------------- diff_parser: DiffParser

\* a path that is None
NoPath == "None"

\* one entry of the diff index, as far as _parse_file_change reads it; its
\* hunks are read later, line by line
DiffEntry(a, b, binary, deleted, new, renamed) ==
    [a_path |-> a, b_path |-> b, is_binary |-> binary, deleted_file |-> deleted,
     new_file |-> new, renamed_file |-> renamed, hunks |-> <<>>]

\* the entries a diff between two commits holds: a modified, a new, a deleted
\* and a renamed file, the binary forms of the first three, and an entry
\* without paths
DiffEntries ==
    {DiffEntry("a", "a", FALSE, FALSE, FALSE, FALSE),
     DiffEntry(NoPath, "b", FALSE, FALSE, TRUE, FALSE),
     DiffEntry("a", NoPath, FALSE, TRUE, FALSE, FALSE),
     DiffEntry("a", "b", FALSE, FALSE, FALSE, TRUE),
     DiffEntry("a", "a", TRUE, FALSE, FALSE, FALSE),
     DiffEntry(NoPath, "b", TRUE, FALSE, TRUE, FALSE),
     DiffEntry("a", NoPath, TRUE, TRUE, FALSE, FALSE),
     DiffEntry(NoPath, NoPath, FALSE, FALSE, FALSE, FALSE)}

\* the values of line.line_origin: context, addition, deletion, anything else
LineOrigins == {" ", "+", "-", "="}

\* "x or y" on two paths
OrPath(x, y) == IF x # NoPath THEN x ELSE y

\* LineChange(line_number=..., content=..., change_type=...)
LineChange(n, c, t) == [line_number |-> n, content |-> c, change_type |-> t]

\* the keyword arguments of a FileChange(...) call pass validation: file_path
\* is a str and changes, the field without a default, is given
FileChangeValid(kw) ==
    /\ "file_path" \in DOMAIN kw /\ kw.file_path # NoPath
    /\ "changes" \in DOMAIN kw

\* the FileChange a valid call builds: the arguments over the defaults
FileChange(kw) ==
    [file_path |-> kw.file_path,
     old_file_path |-> IF "old_file_path" \in DOMAIN kw THEN kw.old_file_path ELSE NoPath,
     changes |-> kw.changes,
     is_binary |-> IF "is_binary" \in DOMAIN kw THEN kw.is_binary ELSE FALSE,
     is_renamed |-> IF "is_renamed" \in DOMAIN kw THEN kw.is_renamed ELSE FALSE,
     is_deleted |-> IF "is_deleted" \in DOMAIN kw THEN kw.is_deleted ELSE FALSE,
     is_new |-> IF "is_new" \in DOMAIN kw THEN kw.is_new ELSE FALSE]

\* the branch of _parse_file_change an entry takes
FileChangeCase(d) ==
    IF d.a_path = NoPath /\ d.b_path = NoPath THEN "none"
    ELSE IF d.is_binary THEN "binary"
    ELSE IF d.deleted_file THEN "deleted"
    ELSE IF d.new_file THEN "new"
    ELSE IF d.renamed_file THEN "renamed"
    ELSE "modified"

\* the keyword arguments _parse_file_change hands to FileChange in each branch
\* that returns one; changes is the list _parse_hunks returned
FileChangeArgs(d, changes) ==
    CASE FileChangeCase(d) = "binary" ->
             [file_path |-> OrPath(d.b_path, d.a_path), is_binary |-> TRUE]
      [] FileChangeCase(d) = "deleted" ->
             [file_path |-> d.a_path, is_deleted |-> TRUE]
      [] FileChangeCase(d) = "new" ->
             [file_path |-> d.b_path, is_new |-> TRUE, changes |-> changes]
      [] FileChangeCase(d) = "renamed" ->
             [file_path |-> d.b_path, old_file_path |-> d.a_path,
              is_renamed |-> TRUE, changes |-> changes]
      [] OTHER -> [file_path |-> d.b_path, changes |-> changes]

\* the branches that call _parse_hunks
ParsesHunks(d) == FileChangeCase(d) \in {"new", "renamed", "modified"}

\* one iteration of "for line in hunk.lines" in _parse_hunks
ParseHunkLine(s, l) ==
    IF l.line_origin = " "
    THEN [s EXCEPT !.current_line = @ + 1,
                   !.changes = Append(@, LineChange(s.current_line + 1, l.content,
                                                    "context"))]
    ELSE IF l.line_origin = "+"
    THEN [s EXCEPT !.current_line = @ + 1,
                   !.changes = Append(@, LineChange(s.current_line + 1, l.content,
                                                    "addition"))]
    ELSE IF l.line_origin = "-"
    THEN [s EXCEPT !.current_line = @ + 1,
                   !.changes = Append(@, LineChange(s.current_line, l.content,
                                                    "deletion"))]
    ELSE s

\* the locals of parse_diff and of the _parse_hunks call in progress
DiffParserInit == [files |-> <<>>, changes |-> <<>>, current_line |-> 0]

\* the hunk lines read so far, over all entries
HunkLinesRead(ds) ==
    LET count[n \in 0..Len(ds)] ==
            IF n = 0 THEN 0
            ELSE count[n - 1] +
                 LET hs == ds[n].hunks
                     inner[m \in 0..Len(hs)] ==
                         IF m = 0 THEN 0 ELSE inner[m - 1] + Len(hs[m])
                 IN inner[Len(hs)]
    IN count[Len(ds)]

\* the entry parse_diff is working on
CurrentDiff == lines[Len(lines)]

\* the variables of suggest, but for outcome, which also holds what parse_diff
\* of the DiffParser raised
suggestLocals ==
    <<token, in_diff_suggestions, out_of_diff_suggestions, i, successful_suggestions,
      fallback_suggestions, file_to_suggestions, file_order, k, new_content,
      branch_name, new_pr_number, created_prs, calls>>

InitDiffParser ==
    /\ mode = "diff_parser"
    /\ lines = <<>>
    /\ p = DiffParserInit
    /\ pc = "scan"
    /\ result = <<>>
    /\ token = TRUE
    /\ InitSuggestLocals

\* "for diff in diff_index: file_change = self._parse_file_change(diff)" up to
\* the return of a branch without hunks, or the call of _parse_hunks
DiffParserNextDiff ==
    /\ pc = "scan"
    /\ Len(lines) < MaxDiffs
    /\ \E d \in DiffEntries :
          /\ lines' = Append(lines, d)
          /\ IF FileChangeCase(d) = "none"
             THEN UNCHANGED <<p, pc, outcome>>
             ELSE IF ParsesHunks(d)
             THEN /\ p' = [p EXCEPT !.changes = <<>>, !.current_line = 0]
                  /\ pc' = "hunks"
                  /\ UNCHANGED outcome
             ELSE IF FileChangeValid(FileChangeArgs(d, <<>>))
             THEN /\ p' = [p EXCEPT !.files = Append(@, FileChange(FileChangeArgs(d, <<>>)))]
                  /\ UNCHANGED <<pc, outcome>>
             ELSE /\ pc' = "raised"
                  /\ outcome' = Raised("ValidationError")
                  /\ UNCHANGED p
    /\ UNCHANGED <<mode, result, suggestLocals>>

\* "for hunk in diff": the next hunk of the entry
DiffParserNextHunk ==
    /\ pc = "hunks"
    /\ Len(CurrentDiff.hunks) < MaxHunks
    /\ lines' = [lines EXCEPT ![Len(lines)].hunks = Append(@, <<>>)]
    /\ UNCHANGED <<mode, p, pc, result, suggestVars>>

\* "for line in hunk.lines": the next line of the hunk
DiffParserHunkLine ==
    /\ pc = "hunks"
    /\ CurrentDiff.hunks # <<>>
    /\ HunkLinesRead(lines) < MaxHunkLines
    /\ \E o \in LineOrigins :
          LET l == [line_origin |-> o, content |-> HunkLinesRead(lines) + 1]
          IN /\ lines' = [lines EXCEPT
                             ![Len(lines)].hunks[Len(CurrentDiff.hunks)] = Append(@, l)]
             /\ p' = ParseHunkLine(p, l)
    /\ UNCHANGED <<mode, pc, result, suggestVars>>

\* "return changes", the FileChange built from it and "files.append(file_change)"
DiffParserEndHunks ==
    /\ pc = "hunks"
    /\ LET kw == FileChangeArgs(CurrentDiff, p.changes)
       IN IF FileChangeValid(kw)
          THEN /\ p' = [p EXCEPT !.files = Append(@, FileChange(kw))]
               /\ pc' = "scan"
               /\ UNCHANGED outcome
          ELSE /\ pc' = "raised"
               /\ outcome' = Raised("ValidationError")
               /\ UNCHANGED p
    /\ UNCHANGED <<mode, lines, result, suggestLocals>>

\* "return DiffModel(files=files, ...)"
DiffParserReturn ==
    /\ pc = "scan"
    /\ pc' = "returned"
    /\ result' = p.files
    /\ UNCHANGED <<mode, lines, p, suggestVars>>

DiffParserNext ==
    \/ DiffParserNextDiff
    \/ DiffParserNextHunk
    \/ DiffParserHunkLine
    \/ DiffParserEndHunks
    \/ DiffParserReturn

SpecDiffParser == InitDiffParser /\ [][DiffParserNext]_vars

\* ------------------------------------------- agent: Agent.parse_git_diff

\* "++ b/<path>" or "-- a/<path>": what line[1:].strip() leaves of a header line
HeaderRest == -2

\* the lines that can stand at place n of the diff text of the agent's workspace
AgentLinesAt(n) ==
    {DiffGit(f) : f \in Files} \cup {Minus3("f1"), Plus3("f1")} \cup HunkHeaders
        \cup {Add(n), Add(Blank), Del(n), Ctx, NoNewline}

\* the diff text is the output of "git diff": "---" right after "diff --git",
\* "+++" right after "---", a hunk header only after the file headers, body
\* lines only inside a hunk
AgentAllows(ls, l) ==
    IF l.head = "diff --git" THEN TRUE
    ELSE IF ls = <<>> THEN FALSE
    ELSE IF l.head = "---" THEN ls[Len(ls)].head = "diff --git"
    ELSE IF l.head = "+++" THEN ls[Len(ls)].head = "---"
    ELSE IF l.head = "@@"
    THEN LastHeaderAt(ls, Len(ls)) > 0 /\ ls[Len(ls)].head # "---"
    ELSE InHunk(ls) /\ ls[Len(ls)].head # "---"

\* file_pattern = 'diff --git a/(.*?) b/.*'
AgentFileMatch(l) == l.head = "diff --git"

\* hunk_pattern = '@@ -(\d+),?\d* \+(\d+),?\d* @@'
AgentHunkMatch(l) == l.head = "@@"

\* line[1:].strip()
Rest(l) == IF l.head \in {"+++", "---"} THEN HeaderRest ELSE l.text

\* the locals of parse_git_diff before the loop; i counts from 1
AgentInit ==
    [changes |-> <<>>,
     current_file |-> NoPath,
     current_line_number |-> None,
     old_line_number |-> None,
     i |-> 1,
     raised |-> FALSE]

\* Change(current_file, current_line_number, old_line, new_line)
Change(file, line, old_line, new_line) ==
    [file |-> file, line |-> line, old_line |-> old_line, new_line |-> new_line]

\* "changes.append(Change(...)); current_line_number += 1": the increment of
\* None raises TypeError
AppendChange(s, old_line, new_line) ==
    LET t == [s EXCEPT !.changes = Append(@, Change(s.current_file,
                                                    s.current_line_number,
                                                    old_line, new_line))]
    IN IF s.current_line_number = None
       THEN [t EXCEPT !.raised = TRUE]
       ELSE [t EXCEPT !.current_line_number = @ + 1]

\* "if file_match: current_file = file_match.group(1)"
AgentOnFile(s, l) ==
    IF AgentFileMatch(l) THEN [s EXCEPT !.current_file = l.path] ELSE s

\* "if hunk_match: old_line_number = ...; current_line_number = ..."
AgentOnHunk(s, l) ==
    IF AgentHunkMatch(l)
    THEN [s EXCEPT !.old_line_number = l.old_start,
                   !.current_line_number = l.new_start]
    ELSE s

\* "lines[i + 1][1:].strip() if i + 1 < len(lines) and
\*  lines[i + 1].startswith('+') else None"
NewLineAfter(ls, n) ==
    IF n + 1 <= Len(ls) /\ StartsWith(ls[n + 1], "+") THEN Rest(ls[n + 1]) ELSE None

\* the branch on a removed line: a Change only when an addition follows it and
\* that addition is not blank
AgentOnRemoval(s, ls) ==
    LET new_line == NewLineAfter(ls, s.i)
    IN IF new_line # None /\ new_line # Blank
       THEN AppendChange(s, Rest(ls[s.i]), new_line)
       ELSE s

\* the branch on an added line: a Change unless the line before is a removal
AgentOnAddition(s, ls) ==
    IF s.i = 1 \/ ~StartsWith(ls[s.i - 1], "-")
    THEN AppendChange(s, None, Rest(ls[s.i]))
    ELSE s

\* one iteration of "for i, line in enumerate(lines)"
AgentStep(s, ls) ==
    LET l == ls[s.i]
        t == AgentOnHunk(AgentOnFile(s, l), l)
        u == IF StartsWith(l, "-") /\ ~StartsWith(l, "---")
             THEN AgentOnRemoval(t, ls)
             ELSE IF StartsWith(l, "+") /\ ~StartsWith(l, "+++")
             THEN AgentOnAddition(t, ls)
             ELSE t
    IN [u EXCEPT !.i = @ + 1]

InitAgent ==
    /\ mode = "agent"
    /\ lines = <<>>
    /\ p = AgentInit
    /\ pc = "read"
    /\ result = <<>>
    /\ token = TRUE
    /\ InitSuggestLocals

\* the diff text handed to parse_git_diff, line by line
AgentReadLine ==
    /\ pc = "read"
    /\ Len(lines) < MaxAgentLines
    /\ \E l \in AgentLinesAt(Len(lines) + 1) :
          /\ AgentAllows(lines, l)
          /\ lines' = Append(lines, l)
    /\ UNCHANGED <<mode, p, pc, result, suggestVars>>

\* "lines = diff_text.split('\n')" and the initialisation of the locals; the
\* empty string split() yields after a final line break matches no branch
AgentSplit ==
    /\ pc = "read"
    /\ pc' = "scan"
    /\ p' = AgentInit
    /\ UNCHANGED <<mode, lines, result, suggestVars>>

\* the loop body for the line at index i
AgentLine ==
    /\ pc = "scan"
    /\ p.i <= Len(lines)
    /\ p' = AgentStep(p, lines)
    /\ IF p'.raised
       THEN pc' = "raised" /\ outcome' = Raised("TypeError")
       ELSE UNCHANGED <<pc, outcome>>
    /\ UNCHANGED <<mode, lines, result, suggestLocals>>

\* "return changes"
AgentReturn ==
    /\ pc = "scan"
    /\ p.i > Len(lines)
    /\ pc' = "returned"
    /\ result' = p.changes
    /\ UNCHANGED <<mode, lines, p, suggestVars>>

AgentNext ==
    \/ AgentReadLine
    \/ AgentSplit
    \/ AgentLine
    \/ AgentReturn

SpecAgent == InitAgent /\ [][AgentNext]_vars

\* ============================================================== properties

\* --------------------------------------------------- the diff, as read

\* a file header of either form the design describes
IsFileHeader(l) == l.head \in {"diff --git", "+++"}

IsBody(l) == l.head \in {"+", "-", " ", "\\"}

\* the last line before place j whose head is in hs, 0 if none
RECURSIVE LastBefore(_, _, _)
LastBefore(ls, j, hs) ==
    IF j <= 1 THEN 0
    ELSE IF ls[j - 1].head \in hs THEN j - 1
    ELSE LastBefore(ls, j - 1, hs)

\* the hunk header of the hunk that line j lies in, 0 if it lies in no hunk of a file
HunkOf(ls, j) ==
    LET h == LastBefore(ls, j, {"@@"})
        f == LastBefore(ls, j, {"diff --git", "+++"})
    IN IF f > 0 /\ h > f THEN h ELSE 0

\* every file is introduced by a "diff --git" line (a "+++" line only follows one),
\* every hunk header belongs to a file and every body line lies inside a hunk
WellFormed(ls) ==
    \A j \in 1..Len(ls) :
       /\ ls[j].head = "+++" => j > 1 /\ ls[j - 1].head = "diff --git"
       /\ ls[j].head = "@@" => LastBefore(ls, j, {"diff --git"}) > 0
       /\ IsBody(ls[j]) => HunkOf(ls, j) > 0

\* the 1-based number, in the new file, of the addition at place j: newStart plus
\* the context and addition lines of its hunk before it
NewLineNumber(ls, j) ==
    LET h == HunkOf(ls, j)
    IN ls[h].new_start + Cardinality({x \in h + 1..j - 1 : ls[x].head \in {" ", "+"}})

\* the first line of the run of consecutive additions that line j belongs to
RECURSIVE RunStart(_, _)
RunStart(ls, j) ==
    IF j > 1 /\ ls[j - 1].head = "+" THEN RunStart(ls, j - 1) ELSE j

\* the last line of the run of consecutive additions that starts at b
RECURSIVE RunEnd(_, _)
RunEnd(ls, b) ==
    IF b < Len(ls) /\ ls[b + 1].head = "+" THEN RunEnd(ls, b + 1) ELSE b

\* the places where a maximal run of consecutive additions starts
RunStarts(ls) ==
    {b \in 1..Len(ls) : ls[b].head = "+" /\ (b = 1 \/ ls[b - 1].head # "+")}

\* the non-blank texts of the lines b..e, in diff order
RunContent(ls, b, e) ==
    LET texts == [x \in 1..(e - b + 1) |-> ls[b + x - 1].text]
    IN SelectSeq(texts, LAMBDA t : t # Blank)

Range(seq) == {seq[x] : x \in 1..Len(seq)}

\* the diff line a suggestion's first content line was read from (a non-blank
\* text is the place of its line)
FirstLine(sg) == sg.suggestion[1]

Core(sg) ==
    [file |-> sg.file, line |-> sg.line, position |-> sg.position,
     content |-> sg.suggestion]

CoreOf(sgs) == [x \in 1..Len(sgs) |-> Core(sgs[x])]

\* ------------------------------------------------------------------- C1

ScenarioA(header) == <<header, Hunk(1, 1), Ctx, Add(4), Add(5), Ctx>>

\* C2: on scenario A with the "+++ b/<path>" header alone parse_diff returns
\* exactly one suggestion, file f1, line 2, content [added1, added2], the same
\* suggestions as when the file is introduced by a "diff --git" header.
C2_PlusHeaderScenario ==
    (pc = "returned" /\ lines = ScenarioA(Plus3("f1"))) =>
        /\ Len(result) = 1
        /\ result[1].file = "f1"
        /\ result[1].line = 2
        /\ result[1].suggestion = <<4, 5>>
        /\ result = ParseDiff(ScenarioA(DiffGit("f1")))

\* ------------------------------------------------------------------- C3

\* C3: every returned suggestion's position is the offset of the first line of
\* its addition block inside its hunk, the hunk header counting as 0 and the
\* first body line as 1.
C3_PositionIsBlockOffset ==
    (pc = "returned" /\ WellFormed(lines)) =>
        \A n \in 1..Len(result) :
            LET b == RunStart(lines, FirstLine(result[n]))
            IN result[n].position = b - HunkOf(lines, b)

\* ------------------------------------------------------------------- C4

\* C4: for any input text every returned suggestion has line >= 1 and
\* position >= 1.
C4_LineAndPositionPositive ==
    pc = "returned" =>
        \A n \in 1..Len(result) : result[n].line >= 1 /\ result[n].position >= 1

\* ------------------------------------------------------------------- C5

\* C5: the text of an addition line read before any file header appears in the
\* content of no returned suggestion.
C5_EarlyAdditionsDiscarded ==
    pc = "returned" =>
        \A n \in 1..Len(result) :
            \A t \in Range(result[n].suggestion) :
                LastBefore(lines, t, {"diff --git", "+++"}) > 0

\* ------------------------------------------------------------------- C6

\* the suggestions that carry a text of the run b..e
CarriedBy(sgs, ls, b, e) ==
    {n \in 1..Len(sgs) : Range(sgs[n].suggestion) \cap b..e # {}}

\* C6: each maximal run of consecutive additions inside a hunk with at least one
\* non-blank line produces exactly one suggestion, whatever ends the run, and the
\* content of that suggestion is exactly the run's non-blank lines in diff order.
C6_OneSuggestionPerRun ==
    pc = "returned" =>
        \A b \in RunStarts(lines) :
            LET e == RunEnd(lines, b)
                content == RunContent(lines, b, e)
            IN (HunkOf(lines, b) > 0 /\ content # <<>>) =>
                  /\ Cardinality(CarriedBy(result, lines, b, e)) = 1
                  /\ \A n \in CarriedBy(result, lines, b, e) :
                        result[n].suggestion = content

\* ------------------------------------------------------------------- C7

DiffGitPlaces(ls) == {j \in 1..Len(ls) : ls[j].head = "diff --git"}

\* a diff of one file: one "diff --git" header, first, and at least one hunk
SingleFileDiff(d) ==
    /\ d # <<>>
    /\ DiffGitPlaces(d) = {1}
    /\ \E j \in 1..Len(d) : d[j].head = "@@"
    /\ WellFormed(d)

\* C7: for two well-formed single-file diffs D1 and D2, parsing D1 followed by D2
\* returns the suggestions of D1 alone followed by those of D2 alone, with the
\* same file, line, position and content.
C7_TwoFileIndependence ==
    (pc = "returned" /\ Cardinality(DiffGitPlaces(lines)) = 2) =>
        LET m == CHOOSE j \in DiffGitPlaces(lines) : j > 1
            D1 == SubSeq(lines, 1, m - 1)
            D2 == SubSeq(lines, m, Len(lines))
        IN (SingleFileDiff(D1) /\ SingleFileDiff(D2)) =>
              CoreOf(result) = CoreOf(ParseDiff(D1)) \o CoreOf(ParseDiff(D2))

\* ------------------------------------------------- the calls of suggest

IsInline(c) == c.op = "create_review_comment"

IsFallback(c) == c.op = "create_issue_comment" /\ c.kind = "suggestion"

\* the call is about suggestion sg
About(c, sg) == c.path = sg.file /\ c.line = sg.line /\ c.body = sg.suggestion

InlineCallsFor(sg) == {x \in 1..Len(calls) : IsInline(calls[x]) /\ About(calls[x], sg)}

FallbackCallsFor(sg) ==
    {x \in 1..Len(calls) : IsFallback(calls[x]) /\ About(calls[x], sg)}

\* suggest is past the partition of the parsed suggestions
Partitioned == pc \notin {"check_token", "init_client", "get_pr", "parse_diff", "raised"}
                  \/ (pc = "raised" /\ result # <<>>)

\* the loop over the in-diff suggestions is over
InlineLoopOver == Partitioned /\ pc \notin {"inline", "fallback"}

\* ------------------------------------------------------------------- C8

\* C8: suggest routes every parsed suggestion to exactly one delivery path: an
\* inline review comment is attempted only for suggestions with is_in_diff true;
\* every suggestion with is_in_diff false is in the out-of-diff batch, grouped
\* under its file, and never gets an inline attempt.
C8_Routing ==
    /\ \A x \in 1..Len(calls) :
          IsInline(calls[x]) =>
              \E n \in 1..Len(result) : About(calls[x], result[n]) /\ result[n].is_in_diff
    /\ Partitioned =>
          \A n \in 1..Len(result) :
              IF result[n].is_in_diff
              THEN /\ result[n] \in Range(in_diff_suggestions)
                   /\ result[n] \notin Range(out_of_diff_suggestions)
              ELSE /\ result[n] \in Range(out_of_diff_suggestions)
                   /\ result[n] \notin Range(in_diff_suggestions)
                   /\ InlineCallsFor(result[n]) = {}
    /\ (\E x \in 1..Len(calls) : calls[x].op = "create_branch") =>
          /\ \A n \in 1..Len(result) :
                ~result[n].is_in_diff =>
                    /\ result[n].file \in DOMAIN file_to_suggestions
                    /\ result[n] \in Range(file_to_suggestions[result[n].file])
          /\ \A f \in DOMAIN file_to_suggestions :
                \A sg \in Range(file_to_suggestions[f]) : sg.file = f /\ ~sg.is_in_diff

\* an inline comment was attempted and the out-of-diff batch has been grouped
C8_Witness ==
    /\ \E x \in 1..Len(calls) : IsInline(calls[x])
    /\ \E x \in 1..Len(calls) : calls[x].op = "create_branch"
    /\ out_of_diff_suggestions # <<>>
    /\ in_diff_suggestions # <<>>

\* ------------------------------------------------------------------- C9

\* C9: for each in-diff suggestion exactly one inline review-comment call is made;
\* a fallback issue comment for it is attempted exactly once if and only if its
\* inline call failed; no call is ever repeated for the same suggestion.
C9_RetryPolicy ==
    Partitioned =>
        \A n \in 1..Len(in_diff_suggestions) :
            LET sg == in_diff_suggestions[n]
                inl == InlineCallsFor(sg)
                fb == FallbackCallsFor(sg)
            IN /\ Cardinality(inl) <= 1
               /\ Cardinality(fb) <= 1
               /\ fb # {} => \E x \in inl : ~calls[x].ok
               /\ (n < i \/ InlineLoopOver) =>
                     /\ Cardinality(inl) = 1
                     /\ Cardinality(fb) = 1 <=> \E x \in inl : ~calls[x].ok

\* suggest is over; one suggestion's inline call failed and got its one fallback,
\* another one's inline call succeeded and got none
C9_Witness ==
    /\ pc = "done"
    /\ \E a, b \in 1..Len(in_diff_suggestions) :
          /\ a # b
          /\ \E x \in InlineCallsFor(in_diff_suggestions[a]) : ~calls[x].ok
          /\ Cardinality(FallbackCallsFor(in_diff_suggestions[a])) = 1
          /\ \E x \in InlineCallsFor(in_diff_suggestions[b]) : calls[x].ok
          /\ FallbackCallsFor(in_diff_suggestions[b]) = {}

\* ------------------------------------------------------------------ C10

\* the suggestions the inline calls made so far were about, in call order
InlineBodies == [x \in 1..Len(SelectSeq(calls, IsInline)) |->
                    SelectSeq(calls, IsInline)[x].body]

\* the contents of the in-diff suggestions in the order parse_diff returned them
InDiffBodies == [x \in 1..Len(SelectSeq(result, LAMBDA sg : sg.is_in_diff)) |->
                    SelectSeq(result, LAMBDA sg : sg.is_in_diff)[x].suggestion]

\* C10: whatever inline and fallback calls fail, every in-diff suggestion gets its
\* inline attempt, the attempts are made in the order parse_diff returned the
\* suggestions, and the attempt for one suggestion starts only after the attempt
\* (and the fallback, if any) for the previous one is over.
C10_AllAttemptedInOrder ==
    /\ Partitioned =>
          /\ Len(InlineBodies) <= Len(InDiffBodies)
          /\ InlineBodies = SubSeq(InDiffBodies, 1, Len(InlineBodies))
    /\ InlineLoopOver => InlineBodies = InDiffBodies
    /\ \A x \in 1..Len(calls) :
          /\ IsFallback(calls[x]) =>
                /\ x > 1
                /\ IsInline(calls[x - 1])
                /\ ~calls[x - 1].ok
                /\ calls[x - 1].body = calls[x].body
          /\ (IsInline(calls[x]) /\ ~calls[x].ok /\ x < Len(calls)) =>
                IsFallback(calls[x + 1])

\* suggest is over; the first suggestion's inline call and its fallback both
\* failed and the second suggestion still got its inline attempt
C10_Witness ==
    /\ pc = "done"
    /\ Len(InDiffBodies) >= 2
    /\ InlineBodies = InDiffBodies
    /\ \E x \in 1..Len(calls) - 2 :
          /\ IsInline(calls[x]) /\ ~calls[x].ok /\ calls[x].body = InDiffBodies[1]
          /\ IsFallback(calls[x + 1]) /\ ~calls[x + 1].ok
          /\ IsInline(calls[x + 2]) /\ calls[x + 2].body = InDiffBodies[2]

\* ------------------------------------------------------------------ C11

IsCreateBranch(c) == c.op = "create_branch"

IsBranchComment(c) == c.op = "create_issue_comment" /\ c.kind = "branch"

BranchFailed == \E x \in 1..Len(calls) : IsCreateBranch(calls[x]) /\ ~calls[x].ok

\* C11: a failed create-branch call does not abort suggest: no exception escapes,
\* and once suggest is over the failure has been reported by exactly one issue
\* comment and the summary with the counts of the posted in-diff comments has
\* been returned.
C11_BranchFailureDoesNotAbort ==
    BranchFailed =>
        /\ outcome.kind # "raised"
        /\ pc = "done" =>
              /\ outcome.kind = "returned"
              /\ outcome.posted = successful_suggestions
              /\ Len(SelectSeq(calls, IsBranchComment)) = 1

\* ------------------------------------------------------------------ C12

IsCreatePull(c) == c.op = "create_pull"

\* the calls of one kind that succeeded
Succeeded(isKind(_)) == SelectSeq(calls, LAMBDA c : isKind(c) /\ c.ok)

\* suggest returned the summary built from its counters
Summarised == pc = "done" /\ outcome.kind = "returned" /\ outcome.text = "Posted"

\* C12: the returned summary reports what happened: the first count is the number
\* of review comments created, the second the number of fallback issue comments
\* created, their sum is at most the number of in-diff suggestions, and the
\* summary lists the identifier of every pull request that was created.
C12_SummaryReportsWhatHappened ==
    Summarised =>
        /\ outcome.posted = Len(Succeeded(IsInline))
        /\ outcome.regular = Len(Succeeded(IsFallback))
        /\ outcome.posted + outcome.regular <= Len(in_diff_suggestions)
        /\ Len(outcome.prs) = Len(Succeeded(IsCreatePull))
        /\ \A x \in 1..Len(outcome.prs) : outcome.prs[x] = new_pr_number

\* ------------------------------------------------------------------ C13

\* the fetch/apply/commit attempt for one file is over: the commit was attempted,
\* or the fetch failed and the handler skipped the rest
EndsFileAttempt(c) ==
    \/ c.op = "apply_file_changes"
    \/ c.op = "get_file_content" /\ ~c.ok

\* the files of the out-of-diff batch
BatchFiles == {out_of_diff_suggestions[x].file : x \in 1..Len(out_of_diff_suggestions)}

C14_NoTokenNoWork ==
    ~token =>
        /\ calls = <<>>
        /\ result = <<>>
        /\ in_diff_suggestions = <<>> /\ out_of_diff_suggestions = <<>>
        /\ pc \in {"check_token", "raised"}
        /\ pc = "raised" => outcome = Raised("ValueError")

\* suggest was called without a token on a diff that holds suggestions, and has
\* raised
C14_Witness ==
    /\ ~token
    /\ pc = "raised"
    /\ ParseDiff(lines) # <<>>

\* ------------------------------------------------------------------ C15

PullFailed == \E x \in 1..Len(calls) : IsCreatePull(calls[x]) /\ ~calls[x].ok

\* C15: when create-pull-request fails after the branch was created, the next
\* call is the issue comment naming the branch and it is the only one, there is
\* no second pull-request attempt, no pull request is recorded as created, and
\* suggest returns a summary with the branch name and the number of out-of-diff
\* suggestions.
C15_PullFailureFallsBackToBranchComment ==
    PullFailed =>
        /\ Len(SelectSeq(calls, IsCreatePull)) = 1
        /\ \A x \in 1..Len(calls) :
              IsCreatePull(calls[x]) =>
                  /\ x = Len(calls) => pc = "branch_comment"
                  /\ x < Len(calls) => x + 1 = Len(calls) /\ IsBranchComment(calls[x + 1])
        /\ Len(SelectSeq(calls, IsBranchComment)) <= 1
        /\ created_prs = <<>>
        /\ branch_name # ""
        /\ pc # "raised"
        /\ pc = "done" =>
              /\ outcome.kind = "returned"
              /\ outcome.prs = <<>>
              /\ outcome.branch = branch_name
              /\ outcome.outside = Len(out_of_diff_suggestions)
              /\ outcome.outside > 0

\* suggest is over after a failed create-pull-request call whose branch comment
\* failed as well
C15_Witness ==
    /\ pc = "done"
    /\ PullFailed
    /\ \E x \in 1..Len(calls) : IsBranchComment(calls[x]) /\ ~calls[x].ok

\* ------------------------------------------------------------------ C16

\* C16: for a diff whose files are introduced by "diff --git" headers and whose
\* additions all lie inside hunks, every returned suggestion has is_in_diff true.
C16_OwnAdditionsAreInDiff ==
    (pc = "returned" /\ WellFormed(lines)) =>
        \A x \in 1..Len(result) : result[x].is_in_diff

\* a well-formed diff was parsed into two suggestions, one of them anchored past
\* a whitespace-only addition
C16_Witness ==
    /\ pc = "returned"
    /\ WellFormed(lines)
    /\ Len(result) = 2
    /\ \E x \in 1..Len(result) :
          /\ result[x].is_in_diff
          /\ FirstLine(result[x]) > 1
          /\ lines[FirstLine(result[x]) - 1] = Add(Blank)

\* ------------------------------------------------------------------ C17

\* the runs of consecutive additions that hold a line that is not whitespace-only
RunsWithText(ls) ==
    {b \in RunStarts(ls) : RunContent(ls, b, RunEnd(ls, b)) # <<>>}

\* the content lists hold text only
ContentIsText(sgs) ==
    \A x \in 1..Len(sgs) :
        /\ sgs[x].suggestion # <<>>
        /\ \A y \in 1..Len(sgs[x].suggestion) : sgs[x].suggestion[y] # Blank

\* C17: for any input, every suggestion (emitted so far, and returned) has a
\* non-empty content list without an empty or whitespace-only element, and a run
\* of additions that are all whitespace-only produces no suggestion: the
\* suggestions start in distinct runs that hold text.
C17_ContentIsNeverBlank ==
    /\ ContentIsText(p.suggestions)
    /\ ContentIsText(result)
    /\ pc = "returned" =>
          /\ \A x \in 1..Len(result) :
                RunStart(lines, FirstLine(result[x])) \in RunsWithText(lines)
          /\ \A x, y \in 1..Len(result) :
                x # y => RunStart(lines, FirstLine(result[x])) #
                         RunStart(lines, FirstLine(result[y]))

\* a diff with a run of whitespace-only additions inside a hunk, closed by a
\* line that is no addition, and a later run that holds text, was parsed into
\* one suggestion
C17_Witness ==
    /\ pc = "returned"
    /\ Len(result) = 1
    /\ \E b \in RunStarts(lines) \ RunsWithText(lines) :
          /\ HunkOf(lines, b) > 0
          /\ RunEnd(lines, b) < FirstLine(result[1])

\* ------------------------------------------------------------------ C18

\* the suggestions emitted so far
EmittedSoFar == IF pc = "returned" THEN result ELSE p.suggestions

\* sg is emitted with the file of the last header (a line with its head in
\* heads) among the lines ls read before that moment, and a hunk header was read
\* since that header
FileOfLastHeader(sg, ls, heads) ==
    LET h == LastBefore(ls, Len(ls) + 1, heads)
    IN /\ sg.file # ""
       /\ h > 0
       /\ sg.file = ls[h].path
       /\ \E j \in h + 1..Len(ls) : ls[j].head = "@@"

\* C18: at the moment a suggestion is emitted, its file is non-empty and is the
\* path of the most recent file header (of either form) read before that moment,
\* and a hunk header has been read since that file header.
C18_FileOfMostRecentHeader ==
    [][Len(EmittedSoFar') > Len(EmittedSoFar) =>
          FileOfLastHeader(EmittedSoFar'[Len(EmittedSoFar')], lines,
                           {"diff --git", "+++"})]_vars

\* ------------------------------------------------------------------ C19

\* C19: the returned list is in diff order: a suggestion that precedes another
\* starts at an earlier addition line of the diff, and successive suggestions
\* drawn from one hunk have strictly increasing line values.
C19_DiffOrder ==
    pc = "returned" =>
        \A x, y \in 1..Len(result) :
            x < y =>
                /\ FirstLine(result[x]) < FirstLine(result[y])
                /\ (/\ HunkOf(lines, FirstLine(result[x])) > 0
                    /\ HunkOf(lines, FirstLine(result[x])) =
                           HunkOf(lines, FirstLine(result[y])))
                      => result[x].line < result[y].line

\* two suggestions were drawn from one hunk of a file, the first closed by a
\* context line and the second by the end of the input
C19_Witness ==
    /\ pc = "returned"
    /\ Len(result) = 2
    /\ HunkOf(lines, FirstLine(result[1])) > 0
    /\ HunkOf(lines, FirstLine(result[1])) = HunkOf(lines, FirstLine(result[2]))
    /\ lines[FirstLine(result[1]) + 1] = Ctx
    /\ FirstLine(result[2]) = Len(lines)

\* ------------------------------------------------------------------ C20

\* C20: every suggestion returned by parse_diff of workspace/suggestions.py has a
\* line that is at least the newStart of the hunk header under which its
\* addition lines appear, also when the hunk holds additions only.
C20_LineAtLeastNewStart ==
    (mode = "suggestions" /\ pc = "returned") =>
        \A x \in 1..Len(result) :
            LET h == LastBefore(lines, FirstLine(result[x]), {"@@"})
            IN h > 0 => result[x].line >= lines[h].new_start

\* ------------------------------------------------------------------ C21

\* the lines of a list of hunks, in diff order
RECURSIVE Flatten(_)
Flatten(hs) == IF hs = <<>> THEN <<>> ELSE Head(hs) \o Flatten(Tail(hs))

\* the change type the claim gives to an origin
TypeOfOrigin(o) ==
    IF o = " " THEN "context" ELSE IF o = "+" THEN "addition" ELSE "deletion"

\* changes holds one LineChange per line of hs with origin ' ', '+' or '-', in
\* diff order and with the matching change type
ChangesMirror(changes, hs) ==
    LET kept == SelectSeq(Flatten(hs), LAMBDA l : l.line_origin \in {" ", "+", "-"})
    IN /\ Len(changes) = Len(kept)
       /\ \A x \in 1..Len(changes) :
             /\ changes[x].content = kept[x].content
             /\ changes[x].change_type = TypeOfOrigin(kept[x].line_origin)

\* the entries of the diff index that have a path: the changed files
ChangedFiles == SelectSeq(lines, LAMBDA d : d.a_path # NoPath \/ d.b_path # NoPath)

\* the hunks of each file are mirrored, and a modified file has no flag set and
\* its new path
HunksAndModifiedFiles ==
    /\ pc = "hunks" => ChangesMirror(p.changes, CurrentDiff.hunks)
    /\ pc = "returned" =>
          \A x \in 1..Len(result) :
              /\ x <= Len(ChangedFiles)
              /\ ParsesHunks(ChangedFiles[x]) =>
                    ChangesMirror(result[x].changes, ChangedFiles[x].hunks)
              /\ FileChangeCase(ChangedFiles[x]) = "modified" =>
                    /\ ~result[x].is_binary /\ ~result[x].is_deleted
                    /\ ~result[x].is_new /\ ~result[x].is_renamed
                    /\ result[x].file_path = ChangedFiles[x].b_path

\* C21: _parse_hunks returns one LineChange per hunk line with origin ' ', '+' or
\* '-', in diff order, typed CONTEXT, ADDITION, DELETION; parse_diff returns one
\* FileChange per changed file, and for a modified file no flag is set and
\* file_path is the new path.
C21_OneFileChangePerChangedFile ==
    /\ pc # "raised"
    /\ pc = "returned" => Len(result) = Len(ChangedFiles)
    /\ HunksAndModifiedFiles

\* ------------------------------------------------------------------ C22

\* the diff without its line at place j
WithoutLine(ls, j) == SubSeq(ls, 1, j - 1) \o SubSeq(ls, j + 1, Len(ls))

\* C22: in a well-formed diff a no-newline marker changes neither counter: the
\* suggestions whose blocks start after the marker have the line and the
\* position they have when the marker line is left out.
C22_MarkerChangesNoCounter ==
    (pc = "returned" /\ WellFormed(lines)) =>
        \A j \in 1..Len(lines) :
            lines[j] = NoNewline =>
                \A x \in 1..Len(result) :
                    FirstLine(result[x]) > j =>
                        \A y \in 1..Len(ParseDiff(WithoutLine(lines, j))) :
                            LET sg == ParseDiff(WithoutLine(lines, j))[y]
                            IN sg.suggestion = result[x].suggestion =>
                                  /\ sg.line = result[x].line
                                  /\ sg.position = result[x].position

\* ------------------------------------------------------------------ C23

\* the hunk header of the hunk the parser is in after the lines read so far
CurrentHunk == HunkOf(lines, Len(lines) + 1)

\* the context and addition lines read since that hunk header
CountedSince(h) == Cardinality({x \in h + 1..Len(lines) : lines[x].head \in {" ", "+"}})

PositionAtEndOfInput(sg) ==
    LET cut == ParseDiff(SubSeq(lines, 1, RunEnd(lines, FirstLine(sg))))
    IN cut[Len(cut)].position

\* C24: in a well-formed diff the position of an addition block does not depend
\* on what ends the block: closed by a context line, a deletion, a hunk header
\* or a file header it has the position it has when the input ends after it.
C24_PositionIndependentOfCloser ==
    (pc = "returned" /\ WellFormed(lines)) =>
        \A x \in 1..Len(result) :
            result[x].position = PositionAtEndOfInput(result[x])

\* ------------------------------------------------------------------ C25

\* the run of additions that starts at b lies in a hunk of a file with a
\* "+++ b/<path>" header
RunInFile(ls, b) ==
    /\ LastBefore(ls, b, {"+++"}) > 0
    /\ LastBefore(ls, b, {"@@"}) > LastBefore(ls, b, {"+++"})

\* the texts of the lines b..e
RunTexts(ls, b, e) == [x \in 1..(e - b + 1) |-> ls[b + x - 1].text]

\* C25: parse_diff of workspace/suggestions.py loses and merges nothing: every
\* maximal run of consecutive additions in a hunk of a file with a "+++" header
\* yields exactly one suggestion, whose content is exactly that run.
C25_EveryRunItsOwnSuggestion ==
    (mode = "suggestions" /\ pc = "returned") =>
        \A b \in RunStarts(lines) :
            RunInFile(lines, b) =>
                Cardinality({x \in 1..Len(result) :
                                result[x].suggestion =
                                    RunTexts(lines, b, RunEnd(lines, b))}) = 1

\* ------------------------------------------------------------------ C26

\* what stands in place of line j of the fetched text: the content of the
\* suggestion anchored at j, or the line itself
ReplacementOf(ls, j, sgs) ==
    IF \E x \in 1..Len(sgs) : sgs[x].line = j
    THEN (CHOOSE sg \in Range(sgs) : sg.line = j).suggestion
    ELSE <<ls[j]>>

\* the lines of the fetched text with every anchored line replaced
RECURSIVE ReplacedFrom(_, _, _)
ReplacedFrom(ls, j, sgs) ==
    IF j > Len(ls) THEN <<>>
    ELSE ReplacementOf(ls, j, sgs) \o ReplacedFrom(ls, j + 1, sgs)

DistinctLines(sgs) ==
    \A x, y \in 1..Len(sgs) : x # y => sgs[x].line # sgs[y].line

\* the lines handed to the commit are the fetched lines with the anchored ones
\* replaced
CommittedLinesReplaced ==
    \A x \in 2..Len(calls) :
        (calls[x].op = "apply_file_changes" /\ calls[x].ok
            /\ DistinctLines(file_to_suggestions[calls[x].path])) =>
              calls[x].body.text =
                  ReplacedFrom(calls[x - 1].body.text, 1,
                               file_to_suggestions[calls[x].path])

\* C26: for a file whose suggestions have pairwise distinct lines, the committed
\* content is the fetched content with exactly the lines anchored by an
\* in-range suggestion replaced by that suggestion's content; out-of-range
\* suggestions change nothing.
C26_CommittedIsFetchedWithReplacements ==
    \A x \in 2..Len(calls) :
        (calls[x].op = "apply_file_changes" /\ calls[x].ok
            /\ DistinctLines(file_to_suggestions[calls[x].path])) =>
              calls[x].body =
                  [calls[x - 1].body EXCEPT
                      !.text = ReplacedFrom(@, 1, file_to_suggestions[calls[x].path])]

\* ------------------------------------------------------------------ C27

IsCommit(c) == c.op = "apply_file_changes"

\* C27: the follow-up pull request is attempted only after the changes of at
\* least one file of the batch were committed to the new branch.
C27_PullRequestNeedsACommit ==
    \A x \in 1..Len(calls) :
        IsCreatePull(calls[x]) =>
            \E y \in 1..x - 1 : IsCommit(calls[y]) /\ calls[y].ok

\* ------------------------------------------------------------------ C28

\* the hunk header the line at place n belongs to: the last one before it
RECURSIVE HunkHeaderBefore(_, _)
HunkHeaderBefore(ls, n) ==
    IF n = 0 THEN 0
    ELSE IF ls[n].head = "@@" THEN n
    ELSE HunkHeaderBefore(ls, n - 1)

\* the line number in the new version of the file of the hunk line at place n:
\* the header's new start plus the context and addition lines in between
NewFileLine(ls, n) ==
    LET h == HunkHeaderBefore(ls, n)
    IN ls[h].new_start
         + Cardinality({j \in h + 1..n - 1 : ls[j].head \in {" ", "+"}})

\* C28: parse_git_diff records for every Change the line number its added
\* line has in the new version of the file (the added line with text n stands
\* at place n of the diff text).
C28_ChangeLineIsNewFileLine ==
    (mode = "agent" /\ pc = "returned") =>
        \A x \in 1..Len(result) :
            result[x].new_line > Blank =>
                result[x].line = NewFileLine(lines, result[x].new_line)

\* ------------------------------------------------------------------ C29

\* the flags set in a FileChange
FlagsOf(fc) ==
    {n \in {"binary", "deleted", "new", "renamed"} :
        \/ n = "binary" /\ fc.is_binary
        \/ n = "deleted" /\ fc.is_deleted
        \/ n = "new" /\ fc.is_new
        \/ n = "renamed" /\ fc.is_renamed}

\* the FileChange fc is the one the claim gives for the entry d
FileChangeFor(fc, d) ==
    /\ FlagsOf(fc) = {FileChangeCase(d)} \ {"modified"}
    /\ FileChangeCase(d) = "deleted" => fc.file_path = d.a_path
    /\ FileChangeCase(d) = "renamed" => fc.old_file_path = d.a_path

\* every FileChange built so far is the one the claim gives for its entry
FileChangesBuiltAsClaimed ==
    pc \in {"scan", "returned"} =>
        /\ Len(p.files) = Len(ChangedFiles)
        /\ \A x \in 1..Len(p.files) : FileChangeFor(p.files[x], ChangedFiles[x])

\* C29: _parse_file_change returns, without raising, a FileChange for every
\* entry that has a path, with the one flag of the first case that applies in
\* the order binary, deleted, new, renamed (none for a modified file), the old
\* path as file_path of a deleted file and as old_file_path of a renamed one.
C29_FileChangeForEveryEntryWithAPath ==
    /\ outcome.kind # "raised"
    /\ FileChangesBuiltAsClaimed

====
